---- MODULE Spec2Model ----
(***************************************************************************)
(* A model of bebopc.js: the bridge that runs the bebopc WebAssembly       *)
(* binary in a worker (src/src/bebopc/worker.ts) and turns its raw         *)
(* exit code / stdout / stderr into structured results                     *)
(* (src/src/bebopc/index.ts).                                              *)
(*                                                                         *)
(* Texts are sequences of one-character strings, so that the regular       *)
(* expressions, split, trim and join of the source are modelled by what    *)
(* they do to the characters.                                              *)
(***************************************************************************)
EXTENDS Integers, Sequences, FiniteSets, TLC

VARIABLES
    \* ---- Multiplex codec (worker.ts encoder, index.ts createFileMap)
    codecPc,        \* "init" | "received" | "decoded"
    codecMap,       \* the FileMap handed to the encoder (insertion-ordered entries)
    codecStdOut,    \* response.stdOut as received by init()/build()
    emittedFiles,   \* outcome of createFileMap(response.stdOut)
    \* ---- Diagnostics (index.ts findErrorEntries .. parseStandardError)
    diagPc,         \* "init" | "exited" | "done"
    diagStdErr,     \* response.stdErr, a sequence of tokens
    diagExitCode,   \* response.exitCode
    diagOp,         \* the operation that handled the response
    diagOutcome,    \* what the operation ended with
    \* ---- Output assembler (index.ts createCompilerOutput)
    asmPc,          \* "init" | "done"
    asmFiles,       \* the decoded FileMap of produced files
    asmConfigs,     \* the requested generators
    asmOutput,      \* outcome of createCompilerOutput
    \* ---- Argument builder of one BebopCompiler handle (index.ts 54-78, 348-459)
    handleOptions,  \* the RootOptions the handle was made with
    builderArgs,    \* the args array of the handle's builder
    sentArgs,       \* the ArgVector passed to the last runBebopc call
    lastCall,       \* the operation of that call, with its parameters
    callCount,      \* operations called on the handle so far
    \* ---- One invocation of the worker's runBebopc (worker.ts 16-107)
    invPc,          \* "init" | "running" | "responded" | "handled"
    invFiles,       \* files: the seeded input FileMap
    invArgs,        \* args: the ArgVector
    vfs,            \* the files of the virtual filesystem fs
    procStdout,     \* stdout, as accumulated by sendStdout
    procStderr,     \* stderr, as accumulated by sendStderr
    procSteps,      \* steps the process has taken
    termination,    \* how wasi.start(instance) ended
    response,       \* what runBebopc returned
    invOutcome,     \* what the top-level operation ended with
    \* ---- The worker's compiled module and its runBebopc calls (worker.ts 11-63)
    memoValue,      \* value of memoize: <<>> (undefined) or <<promise>>
    promises,       \* promises[p]: state of the p-th compileStreaming promise
    callPc,         \* callPc[c]: where call c of runBebopc stands
    callModule      \* callModule[c]: the promise call c awaits, <<>> before

codecVars == <<codecPc, codecMap, codecStdOut, emittedFiles>>
diagVars == <<diagPc, diagStdErr, diagExitCode, diagOp, diagOutcome>>
asmVars == <<asmPc, asmFiles, asmConfigs, asmOutput>>
argVars == <<handleOptions, builderArgs, sentArgs, lastCall, callCount>>
cacheVars == <<memoValue, promises, callPc, callModule>>
invVars == <<invPc, invFiles, invArgs, vfs, procStdout, procStderr, procSteps,
             termination, response, invOutcome>>

-----------------------------------------------------------------------------
(* Characters and generic string helpers                                   *)

\* JavaScript \s restricted to the characters of the model's alphabet.
IsSpace(c) == c \in {" ", "\t", "\n", "\r"}

\* JavaScript line terminators: "." does not match them, "^" and "$" of a
\* multiline regular expression match next to them.
IsLineTerminator(c) == c \in {"\n", "\r"}

\* Case folding of the "i" flag, for the letters of "@filename:".
ToLower(c) ==
    CASE c = "F" -> "f" [] c = "I" -> "i" [] c = "L" -> "l" [] c = "E" -> "e"
      [] c = "N" -> "n" [] c = "A" -> "a" [] c = "M" -> "m" [] OTHER -> c

\* s.slice(a - 1, b) with 1-based inclusive bounds, empty when out of range.
Slice(s, a, b) == IF a > b \/ a < 1 \/ b > Len(s) THEN <<>> ELSE SubSeq(s, a, b)

\* s.endsWith(t)
EndsWith(s, t) ==
    /\ Len(t) <= Len(s)
    /\ SubSeq(s, Len(s) - Len(t) + 1, Len(s)) = t

\* String.prototype.trim
Trim(s) ==
    LET keep == {i \in 1..Len(s) : ~IsSpace(s[i])}
    IN  IF keep = {} THEN <<>>
        ELSE LET lo == CHOOSE i \in keep : \A j \in keep : i <= j
                 hi == CHOOSE i \in keep : \A j \in keep : j <= i
             IN  SubSeq(s, lo, hi)

\* The concatenation of a sequence of texts.
RECURSIVE Concat(_)
Concat(ss) == IF ss = <<>> THEN <<>> ELSE Head(ss) \o Concat(Tail(ss))

\* lines.join(sep)
RECURSIVE JoinWith(_, _)
JoinWith(ss, sep) ==
    IF ss = <<>> THEN <<>>
    ELSE IF Len(ss) = 1 THEN ss[1]
    ELSE ss[1] \o sep \o JoinWith(Tail(ss), sep)

\* input.split(/\r?\n/g)
RECURSIVE SplitLines(_)
SplitLines(s) ==
    LET nl == {i \in 1..Len(s) : s[i] = "\n"}
    IN  IF nl = {} THEN <<s>>
        ELSE LET i == CHOOSE k \in nl : \A j \in nl : k <= j
                 e == IF i > 1 /\ s[i - 1] = "\r" THEN i - 2 ELSE i - 1
             IN  <<Slice(s, 1, e)>> \o SplitLines(Slice(s, i + 1, Len(s)))

\* s.split("/")
RECURSIVE SplitSlash(_)
SplitSlash(s) ==
    LET sl == {i \in 1..Len(s) : s[i] = "/"}
    IN  IF sl = {} THEN <<s>>
        ELSE LET i == CHOOSE k \in sl : \A j \in sl : k <= j
             IN  <<Slice(s, 1, i - 1)>> \o SplitSlash(Slice(s, i + 1, Len(s)))

\* posix normalizeString with allowAboveRoot = false: "" and "." segments are
\* dropped, ".." removes the segment before it (and is dropped at the root).
RECURSIVE NormalizeSegments(_, _)
NormalizeSegments(segs, acc) ==
    IF segs = <<>> THEN acc
    ELSE LET h == Head(segs)
         IN  IF h = <<>> \/ h = <<".">> THEN NormalizeSegments(Tail(segs), acc)
             ELSE IF h = <<".", ".">>
                  THEN NormalizeSegments(Tail(segs),
                           IF acc = <<>> THEN acc ELSE SubSeq(acc, 1, Len(acc) - 1))
             ELSE NormalizeSegments(Tail(segs), Append(acc, h))

\* path.resolve("/", p): p relative is taken under "/", the result is normalized.
PathResolve(p) == <<"/">> \o JoinWith(NormalizeSegments(SplitSlash(p), <<>>), <<"/">>)

\* path.dirname(p) of an absolute path.
PathDirname(p) ==
    LET sl == {i \in 1..Len(p) : p[i] = "/"}
    IN  IF sl = {} THEN <<".">>
        ELSE LET i == CHOOSE k \in sl : \A j \in sl : j <= k
             IN  IF i = 1 THEN <<"/">> ELSE SubSeq(p, 1, i - 1)

-----------------------------------------------------------------------------
(* An insertion-ordered Map<string, string>: a sequence of entries          *)

MapKeys(m) == {m[i].name : i \in 1..Len(m)}
MapHas(m, k) == k \in MapKeys(m)
MapGet(m, k) == LET i == CHOOSE j \in 1..Len(m) : m[j].name = k IN m[i].content

\* Map.prototype.set: an existing key keeps its position, its value is replaced.
MapSet(m, k, v) ==
    IF MapHas(m, k)
    THEN [i \in 1..Len(m) |-> IF m[i].name = k THEN [name |-> k, content |-> v] ELSE m[i]]
    ELSE Append(m, [name |-> k, content |-> v])

-----------------------------------------------------------------------------
(* Multiplex codec                                                          *)

\* The literal the encoder writes before a path: "// @filename: ".
MarkerPrefix == <<"/", "/", " ", "@", "f", "i", "l", "e", "n", "a", "m", "e", ":", " ">>

\* worker.ts 86-92: one block per file, the whole output trimmed.
RECURSIVE EncodeBlocks(_)
EncodeBlocks(entries) ==
    IF entries = <<>> THEN <<>>
    ELSE MarkerPrefix \o Head(entries).name \o <<"\n">>
         \o Head(entries).content \o <<"\n", "\n">>
         \o EncodeBlocks(Tail(entries))

EncodeFiles(entries) == Trim(EncodeBlocks(entries))

\* The first index >= i of s that holds no white space (Len(s) + 1 if none).
SkipSpace(s, i) ==
    LET stop == {k \in i..Len(s) : ~IsSpace(s[k])}
    IN  IF stop = {} THEN Len(s) + 1 ELSE CHOOSE k \in stop : \A j \in stop : k <= j

AtFilename == <<"@", "f", "i", "l", "e", "n", "a", "m", "e", ":">>

\* fileNameRegexp = /^\s*\/\/\s*@filename:\s*(.+)$/gim tried at index p of s.
\* "^": p is the start of s or follows a line terminator.  Each \s* is greedy
\* and also runs over line terminators; the \s* before (.+) gives back white
\* space until "." finds a character that is no line terminator; (.+) then
\* runs to the next line terminator or the end, where "$" holds.
\* Yields [ok, capture].
RegexpMatchAt(s, p) ==
    LET a  == SkipSpace(s, p)
        b  == SkipSpace(s, a + 2)
        c0 == b + Len(AtFilename)
        we == SkipSpace(s, c0)
        ks == {k \in c0..we : k <= Len(s) /\ ~IsLineTerminator(s[k])}
        k  == CHOOSE x \in ks : \A y \in ks : y <= x
        es == {e \in k..Len(s) : \A j \in k..e : ~IsLineTerminator(s[j])}
        e  == CHOOSE x \in es : \A y \in es : y <= x
    IN  IF /\ (p = 1 \/ (p - 1 <= Len(s) /\ IsLineTerminator(s[p - 1])))
           /\ Slice(s, a, a + 1) = <<"/", "/">>
           /\ Len(Slice(s, b, c0 - 1)) = Len(AtFilename)
           /\ [i \in 1..Len(AtFilename) |-> ToLower(s[b + i - 1])] = AtFilename
           /\ ks # {}
        THEN [ok |-> TRUE, capture |-> SubSeq(s, k, e)]
        ELSE [ok |-> FALSE, capture |-> <<>>]

\* fileNameRegexp.test(s) with lastIndex = 0
RegexpTest(s) == \E p \in 1..Len(s) : RegexpMatchAt(s, p).ok

\* fileNameRegexp.exec(s) with lastIndex = 0: the leftmost match.
RegexpExec(s) ==
    IF RegexpTest(s)
    THEN LET ps == {p \in 1..Len(s) : RegexpMatchAt(s, p).ok}
         IN  RegexpMatchAt(s, CHOOSE p \in ps : \A q \in ps : p <= q)
    ELSE [ok |-> FALSE, capture |-> <<>>]

NoFile == <<>>   \* currentFilename === undefined (a resolved path is never empty)

\* index.ts 126-130
FinalizeFile(files, currentFilename, currentLines) ==
    IF currentFilename # NoFile
    THEN MapSet(files, currentFilename, JoinWith(currentLines, <<"\n">>))
    ELSE files

\* index.ts 131-146: the loop over the lines and the final finalizeFile().
RECURSIVE DecodeLines(_, _, _, _)
DecodeLines(lines, files, currentFilename, currentLines) ==
    IF lines = <<>> THEN FinalizeFile(files, currentFilename, currentLines)
    ELSE LET line  == Head(lines)
             match == RegexpExec(line)
         IN  IF match.ok
             THEN DecodeLines(Tail(lines),
                              FinalizeFile(files, currentFilename, currentLines),
                              PathResolve(match.capture), <<>>)
             ELSE DecodeLines(Tail(lines), files, currentFilename,
                              IF currentFilename # NoFile
                              THEN Append(currentLines, line) ELSE currentLines)

\* index.ts 116-147.  error = "" when a map is returned.
createFileMap(input) ==
    IF ~RegexpTest(input)
    THEN [error |-> "no input files found", files |-> <<>>]
    ELSE [error |-> "", files |-> DecodeLines(SplitLines(input), <<>>, NoFile, <<>>)]

-----------------------------------------------------------------------------
(* Diagnostics: JSON texts are sequences of tokens.  The punctuation of     *)
(* JSON is kept token by token; a string literal, a number or a stretch of  *)
(* prose is one token, and no string literal holds a brace.                 *)

JsonStrings ==
    {"severity", "message", "errorCode", "span", "warnings", "errors", "results",
     "hint", "line", "error", "warning", "bad", "worse"}
JsonNumbers == {"1", "12", "13"}
JsonScalars == JsonStrings \cup JsonNumbers

ParseFailed == [ok |-> FALSE, next |-> 0, fields |-> <<>>]

\* JSON.parse as a recursive descent over the tokens from index i.  Yields
\* [ok, next, fields]: next is the index after the value, fields the members
\* (key, value tokens) when the value is an object.
RECURSIVE ParseValue(_, _), ParseMembers(_, _, _), ParseElements(_, _)
ParseValue(t, i) ==
    IF i > Len(t) THEN ParseFailed
    ELSE IF t[i] \in JsonScalars THEN [ok |-> TRUE, next |-> i + 1, fields |-> <<>>]
    ELSE IF t[i] = "{"
         THEN IF i + 1 <= Len(t) /\ t[i + 1] = "}"
              THEN [ok |-> TRUE, next |-> i + 2, fields |-> <<>>]
              ELSE ParseMembers(t, i + 1, <<>>)
    ELSE IF t[i] = "["
         THEN IF i + 1 <= Len(t) /\ t[i + 1] = "]"
              THEN [ok |-> TRUE, next |-> i + 2, fields |-> <<>>]
              ELSE ParseElements(t, i + 1)
    ELSE ParseFailed

ParseMembers(t, i, acc) ==
    IF i + 2 > Len(t) \/ t[i] \notin JsonStrings \/ t[i + 1] # ":" THEN ParseFailed
    ELSE LET v == ParseValue(t, i + 2)
         IN  IF ~v.ok \/ v.next > Len(t) THEN ParseFailed
             ELSE LET acc2 == Append(acc, [key |-> t[i],
                                           value |-> SubSeq(t, i + 2, v.next - 1)])
                  IN  IF t[v.next] = "}"
                      THEN [ok |-> TRUE, next |-> v.next + 1, fields |-> acc2]
                      ELSE IF t[v.next] = "," THEN ParseMembers(t, v.next + 1, acc2)
                      ELSE ParseFailed

ParseElements(t, i) ==
    LET v == ParseValue(t, i)
    IN  IF ~v.ok \/ v.next > Len(t) THEN ParseFailed
        ELSE IF t[v.next] = "]" THEN [ok |-> TRUE, next |-> v.next + 1, fields |-> <<>>]
        ELSE IF t[v.next] = "," THEN ParseElements(t, v.next + 1)
        ELSE ParseFailed

\* JSON.parse(text): the whole text must be one value.
JSONParse(t) ==
    LET v == ParseValue(t, 1)
    IN  IF v.ok /\ v.next = Len(t) + 1 THEN v ELSE ParseFailed

\* key in obj
HasField(obj, k) == \E i \in 1..Len(obj) : obj[i].key = k

\* obj.key: the value tokens of the last member of that key, <<>> for undefined.
Field(obj, k) ==
    IF HasField(obj, k)
    THEN LET is == {i \in 1..Len(obj) : obj[i].key = k}
         IN  obj[CHOOSE i \in is : \A j \in is : j <= i].value
    ELSE <<>>

\* index.ts 284-285: stdError.match(/{[\S\s]*?}/g) from index pos on: each match
\* runs from the next "{" to the first "}" after it (the quantifier is lazy).
RECURSIVE JsonMatches(_, _)
JsonMatches(t, pos) ==
    LET opens == {i \in pos..Len(t) : t[i] = "{"}
    IN  IF opens = {} THEN <<>>
        ELSE LET i == CHOOSE x \in opens : \A y \in opens : x <= y
                 closes == {j \in i + 1..Len(t) : t[j] = "}"}
             IN  IF closes = {} THEN <<>>
                 ELSE LET j == CHOOSE x \in closes : \A y \in closes : x <= y
                      IN  <<SubSeq(t, i, j)>> \o JsonMatches(t, j + 1)

\* index.ts 286-296: the matches that JSON.parse accepts, in order.
RECURSIVE ValidObjects(_)
ValidObjects(matches) ==
    IF matches = <<>> THEN <<>>
    ELSE LET v == JSONParse(Head(matches))
         IN  (IF v.ok THEN <<v.fields>> ELSE <<>>) \o ValidObjects(Tail(matches))

\* index.ts 282-297
findErrorEntries(stdError) == ValidObjects(JsonMatches(stdError, 1))

\* index.ts 299-304
isCompilerException(obj) ==
    HasField(obj, "severity") /\ HasField(obj, "message") /\ HasField(obj, "errorCode")

\* What an operation ends with.  Every outcome carries every field, the unused
\* ones empty:  kind = "CompilerError": new CompilerError(severity, message,
\* errorCode, span) built from a parsed object;  "ProcessError": new
\* CompilerError("error", stdError, exitCode);  "Output": a returned
\* CompilerOutput;  "TypeError": a property read of undefined;  "None".
Outcome(kind, severity, message, errorCode, span, stdErr, exitCode, output) ==
    [kind |-> kind, severity |-> severity, message |-> message,
     errorCode |-> errorCode, span |-> span, stdErr |-> stdErr,
     exitCode |-> exitCode, output |-> output]
NoOutcome == Outcome("None", <<>>, <<>>, <<>>, <<>>, <<>>, 0, <<>>)
TypedError(obj) ==
    Outcome("CompilerError", Field(obj, "severity"), Field(obj, "message"),
            Field(obj, "errorCode"), Field(obj, "span"), <<>>, 0, <<>>)
ProcessError(stdError, exitCode) ==
    Outcome("ProcessError", <<>>, <<>>, <<>>, <<>>, stdError, exitCode, <<>>)
Returned(obj) == Outcome("Output", <<>>, <<>>, <<>>, <<>>, <<>>, 0, obj)

FatalExitCode == 400

\* index.ts 306-320
throwCompilerError(stdError, exitCode) ==
    LET errorEntries == findErrorEntries(stdError)
    IN  IF /\ Len(errorEntries) > 0
           /\ exitCode >= FatalExitCode
           /\ isCompilerException(errorEntries[Len(errorEntries)])
        THEN TypedError(errorEntries[Len(errorEntries)])
        ELSE ProcessError(stdError, exitCode)

\* index.ts 322-346
parseStandardError(stdError, exitCode) ==
    LET errorEntries == findErrorEntries(stdError)
    IN  IF Len(errorEntries) = 0 THEN ProcessError(stdError, exitCode)
        ELSE IF /\ exitCode < FatalExitCode
                /\ HasField(errorEntries[1], "warnings")
                /\ HasField(errorEntries[1], "errors")
             THEN Returned(errorEntries[1])
        ELSE IF isCompilerException(errorEntries[Len(errorEntries)])
             THEN TypedError(errorEntries[Len(errorEntries)])
        ELSE ProcessError(stdError, exitCode)

-----------------------------------------------------------------------------
(* Output assembler                                                         *)

NoExt == <<>>

\* index.ts 149-162: alias -> [ext, auxiliaryExt], <<>> for an unknown alias.
extLookupTable(alias) ==
    CASE alias = "cpp"  -> <<[ext |-> <<"c", "p", "p">>, auxiliaryExt |-> <<"h", "p", "p">>]>>
      [] alias = "cs"   -> <<[ext |-> <<"c", "s">>, auxiliaryExt |-> NoExt]>>
      [] alias = "dart" -> <<[ext |-> <<"d", "a", "r", "t">>, auxiliaryExt |-> NoExt]>>
      [] alias = "py"   -> <<[ext |-> <<"p", "y">>, auxiliaryExt |-> NoExt]>>
      [] alias = "rust" -> <<[ext |-> <<"r", "s">>, auxiliaryExt |-> NoExt]>>
      [] alias = "ts"   -> <<[ext |-> <<"t", "s">>, auxiliaryExt |-> NoExt]>>
      [] OTHER          -> <<>>

\* index.ts 199: resolvedOutFile.match(/\.([^.]+)$/) is not null.
HasExtension(p) ==
    \E i \in 1..Len(p) - 1 : p[i] = "." /\ \A j \in i + 1..Len(p) : p[j] # "."

\* [...files.keys()].find(test), hits being the indices of the keys that pass
\* the test: the first such key in insertion order, <<>> if none.
FindKey(files, hits) ==
    IF hits = {} THEN <<>>
    ELSE <<files[CHOOSE i \in hits : \A j \in hits : i <= j].name>>

\* index.ts 215-217
FindOutFile(files, resolvedOutFile) ==
    FindKey(files, {i \in 1..Len(files) : EndsWith(files[i].name, resolvedOutFile)})

\* index.ts 235-239
FindAuxiliaryFile(files, resolvedOutFile, auxiliaryExt) ==
    LET outFileDir == PathDirname(resolvedOutFile)
    IN  FindKey(files, {i \in 1..Len(files) :
                           /\ EndsWith(files[i].name, <<".">> \o auxiliaryExt)
                           /\ PathDirname(files[i].name) = outFileDir})

NoAuxiliary == <<>>

\* index.ts 197-257: one turn of the loop.  error = "" with the GeneratedFile.
GenerateOne(files, config) ==
    LET resolvedOutFile == PathResolve(config.outFile)
        extInfo         == extLookupTable(config.alias)
        outFileMatch    == FindOutFile(files, resolvedOutFile)
        Failed(msg)     == [error |-> msg, file |-> <<>>]
        File(aux)       == [error |-> "",
                            file |-> <<[name |-> outFileMatch[1],
                                        content |-> MapGet(files, outFileMatch[1]),
                                        generator |-> config.alias,
                                        auxiliaryFile |-> aux]>>]
    IN  IF ~HasExtension(resolvedOutFile) THEN Failed("unable to determine extension")
        ELSE IF extInfo = <<>> THEN Failed("unable to lookup extension")
        ELSE IF outFileMatch = <<>> THEN Failed("unable to find output file")
        ELSE IF extInfo[1].auxiliaryExt # NoExt
             THEN LET auxiliaryFileMatch ==
                          FindAuxiliaryFile(files, resolvedOutFile, extInfo[1].auxiliaryExt)
                  IN  IF auxiliaryFileMatch # <<>>
                      THEN File(<<[name |-> auxiliaryFileMatch[1],
                                   content |-> MapGet(files, auxiliaryFileMatch[1])]>>)
                      ELSE Failed("unable to find auxiliary file")
        ELSE File(NoAuxiliary)

\* index.ts 195-258: the loop; the first failure ends it.
RECURSIVE GenerateAll(_, _, _)
GenerateAll(files, configs, results) ==
    IF configs = <<>> THEN [error |-> "", results |-> results]
    ELSE LET g == GenerateOne(files, Head(configs))
         IN  IF g.error # "" THEN [error |-> g.error, results |-> results]
             ELSE GenerateAll(files, Tail(configs), results \o g.file)

\* index.ts 164-261.  error = "" when a CompilerOutput is returned; a thrown
\* CompilerError carries its message and no output.
createCompilerOutput(files, configs, stdError) ==
    LET diagnostics == JSONParse(stdError)
        Failed(msg) == [error |-> msg, warnings |-> <<>>, errors |-> <<>>, results |-> <<>>]
    IN  IF Len(configs) = 0 THEN Failed("no generators specified")
        ELSE IF stdError # <<>> /\ ~diagnostics.ok
             THEN Failed("error while parsing standard error")
        ELSE LET g == GenerateAll(files, configs, <<>>)
             IN  IF g.error # "" THEN Failed(g.error)
                 ELSE [error    |-> "",
                       warnings |-> IF stdError # <<>>
                                    THEN Field(diagnostics.fields, "warnings")
                                    ELSE <<"[", "]">>,
                       errors   |-> IF stdError # <<>>
                                    THEN Field(diagnostics.fields, "errors")
                                    ELSE <<"[", "]">>,
                       results  |-> g.results]

-----------------------------------------------------------------------------
(* Argument builder.  A token of an ArgVector is the sequence of the parts  *)
(* whose concatenation is the token.                                        *)

\* index.ts 56-66: addFlag on the array args; value is <<>> when undefined,
\* the one value or the elements of an array otherwise.
addFlag(args, flag, value) == Append(args, <<flag>>) \o value

\* index.ts 68-71: addSubCommand pushes on the same array and hands it to the
\* builder it returns.
addSubCommand(args, subCommand) == Append(args, <<subCommand>>)

\* index.ts 23-47
generatorConfigToString(config) ==
    <<config.alias, ":", config.outFile>>
    \o (IF config.services # "" THEN <<",", config.services>> ELSE <<>>)
    \o (IF config.emitNotice THEN <<",emitNotice=true">> ELSE <<>>)
    \o (IF config.emitBinarySchema THEN <<",emitBinarySchema=true">> ELSE <<>>)
    \o (IF config.namespace # "" THEN <<",namespace=", config.namespace>> ELSE <<>>)
    \o (IF config.options # "" THEN <<",", config.options>> ELSE <<>>)

NoOptions == [given |-> FALSE, trace |-> FALSE, include |-> <<>>, exclude |-> <<>>,
              locale |-> "", diagnosticFormat |-> ""]

\* index.ts 91-112 (a config path is not given in this model)
addRootOptions(options, args) ==
    LET a1 == IF options.trace THEN addFlag(args, "--trace", <<>>) ELSE args
        a2 == IF options.include # <<>> THEN addFlag(a1, "--include", options.include) ELSE a1
        a3 == IF options.exclude # <<>> THEN addFlag(a2, "--exclude", options.exclude) ELSE a2
        a4 == IF options.locale # "" THEN addFlag(a3, "--locale", <<<<options.locale>>>>) ELSE a3
    IN  IF options.diagnosticFormat # ""
        THEN addFlag(a4, "--diagnostic-format", <<<<options.diagnosticFormat>>>>)
        ELSE addFlag(a4, "--diagnostic-format", <<<<"json">>>>)

\* index.ts 352-356: the builder of a new handle.
NewHandleArgs(options) ==
    IF options.given THEN addRootOptions(options, <<<<"bebopc">>>>) ELSE <<<<"bebopc">>>>

\* index.ts 369, 380, 391, 408, 419: the flag of an operation without subcommand.
OperationFlag(op) ==
    CASE op = "getHelp"     -> "--help"
      [] op = "getVersion"  -> "--version"
      [] op = "init"        -> "--init"
      [] op = "showConfig"  -> "--show-config"
      [] op = "listSchemas" -> "--list-schemas-only"

RECURSIVE AddGenerators(_, _)
AddGenerators(args, generators) ==
    IF generators = <<>> THEN args
    ELSE AddGenerators(addFlag(args, "--generator",
                               <<generatorConfigToString(Head(generators))>>),
                       Tail(generators))

\* index.ts 439-458: what build(generators, options) appends to the array.
BuildArgs(args, generators, options) ==
    LET b0 == addSubCommand(args, "build")
        b1 == AddGenerators(b0, generators)
        b2 == IF options.noEmit THEN addFlag(b1, "--no-emit", <<>>) ELSE b1
        b3 == IF options.noWarn # <<>> THEN addFlag(b2, "--no-warn", options.noWarn) ELSE b2
    IN  IF options.writeToStdOut THEN addFlag(b3, "--stdout", <<>>) ELSE b3

-----------------------------------------------------------------------------
(* Sandbox invoker                                                          *)

Segments(p) == NormalizeSegments(SplitSlash(p), <<>>)

\* The files of fs below the directory of segments dirSegs.
FilesUnder(fs, dirSegs) ==
    {p \in MapKeys(fs) :
        /\ Len(Segments(p)) > Len(dirSegs)
        /\ SubSeq(Segments(p), 1, Len(dirSegs)) = dirSegs}

\* The entry names of the model, in ascending order.
NameOrder == <<<<"a">>, <<"b">>, <<"d">>, <<"j">>, <<"o">>, <<"s">>, <<"t">>, <<"u">>>>

\* fs.readdirSync(dir): the names of the entries of dir, in ascending order
\* (the order of the in-memory filesystem of wasi-js).
readdirSync(fs, dir) ==
    LET dirSegs == Segments(dir)
        IsEntry(n) == \E p \in FilesUnder(fs, dirSegs) : Segments(p)[Len(dirSegs) + 1] = n
    IN  SelectSeq(NameOrder, IsEntry)

\* path.join(dir, p) of an absolute normalized dir and a name.
PathJoin(dir, p) == IF dir = <<"/">> THEN dir \o p ELSE dir \o <<"/">> \o p

\* worker.ts 97-107: the files below dir, depth first.
RECURSIVE walk(_, _), WalkEntries(_, _, _)
walk(fs, dir) == WalkEntries(fs, dir, readdirSync(fs, dir))

WalkEntries(fs, dir, names) ==
    IF names = <<>> THEN <<>>
    ELSE LET entry == PathJoin(dir, Head(names))
         IN  (IF FilesUnder(fs, Segments(entry)) # {} THEN walk(fs, entry)
              ELSE IF MapHas(fs, entry) THEN <<entry>>
              ELSE <<>>)
             \o WalkEntries(fs, dir, Tail(names))

\* args.includes(token)
ArgsInclude(args, token) == \E i \in 1..Len(args) : args[i] = <<token>>

\* worker.ts 82-85
IsFileProducing(args) ==
    \/ (ArgsInclude(args, "build") /\ ~ArgsInclude(args, "--stdout"))
    \/ ArgsInclude(args, "--init")

\* worker.ts 86-91: the entries of the walk that were not seeded.
RECURSIVE NewEntries(_, _, _)
NewEntries(fs, files, paths) ==
    IF paths = <<>> THEN <<>>
    ELSE (IF MapHas(files, Head(paths)) THEN <<>>
          ELSE <<[name |-> Head(paths), content |-> MapGet(fs, Head(paths))]>>)
         \o NewEntries(fs, files, Tail(paths))

ExitCodeDefault == 127

InvocationResult(exitCode, stdOut, stdErr) ==
    [shape |-> "InvocationResult", exitCode |-> <<exitCode>>, stdOut |-> stdOut,
     stdErr |-> stdErr, text |-> <<>>]

\* worker.ts 64-74: the exit code of the run, <<>> when the catch clause
\* returns from runBebopc instead.
ExitCodeOf(term) ==
    CASE term.kind = "return"     -> <<0>>
      [] term.kind = "exit"       -> <<term.code>>
      [] term.kind = "exitNoCode" -> <<ExitCodeDefault>>
      [] term.kind = "fault"      -> <<>>

\* worker.ts 64-95: runBebopc from the end of wasi.start(instance) on.
RunResult(files, args, fs, stdout, stderr, term) ==
    LET exitCode == ExitCodeOf(term)
    IN  IF exitCode = <<>>
        THEN [shape |-> "string", exitCode |-> <<>>, stdOut |-> <<>>, stdErr |-> <<>>,
              text |-> <<"RuntimeError: unreachable">>]
        ELSE IF exitCode[1] # 0 THEN InvocationResult(exitCode[1], stdout, stderr)
        ELSE IF IsFileProducing(args)
             THEN InvocationResult(exitCode[1],
                                   EncodeFiles(NewEntries(fs, files, walk(fs, <<"/">>))),
                                   stderr)
        ELSE InvocationResult(exitCode[1], stdout, stderr)

\* new TypeError: findErrorEntries reads stdError.match of undefined.
TypeErrorOutcome == Outcome("TypeError", <<>>, <<>>, <<>>, <<>>, <<>>, 0, <<>>)
Value(text) == Outcome("Value", <<>>, <<>>, <<>>, <<>>, <<>>, 0, text)

\* index.ts 371-373 (460-462 for build): the response of a run that did not
\* end with exit code 0.  A response that is a string has no exitCode and no
\* stdErr.
HandleFailure(args, resp) ==
    IF resp.shape = "string" THEN TypeErrorOutcome
    ELSE IF ArgsInclude(args, "build") THEN parseStandardError(resp.stdErr, resp.exitCode[1])
    ELSE throwCompilerError(resp.stdErr, resp.exitCode[1])

\* index.ts 374-377: getHelp on exit code 0.
HelpResult(resp) ==
    IF resp.stdOut = <<>> THEN throwCompilerError(resp.stdErr, resp.exitCode[1])
    ELSE Value(Trim(resp.stdOut))

-----------------------------------------------------------------------------
(* Compile-once cache                                                       *)

\* A memoize that calls fn again on every call.
memoizeWithoutCache(value, fn) == fn

\* part_000 48-51: value ??= fn().  value is <<>> while undefined; fn is what a
\* call of the memoized function would return.  Yields the value kept and
\* returned.
memoize(value, fn) == IF value = <<>> THEN fn ELSE value

\* worker.ts 11-13: getModule() with the cell value, when the promises made so
\* far are made: a call of fn starts compileStreaming, which returns a new
\* pending promise at once.
getModule(value, made) == memoize(value, <<Len(made) + 1>>)

-----------------------------------------------------------------------------
(* Codec specification: the worker encodes a FileMap (or the process writes *)
(* stdout itself) and the caller decodes response.stdOut.                   *)

MaxFiles == 2
MaxChunks == 4

CodecPaths == {<<"/", "a">>, <<"/", "d", "/", "b">>, <<"/", "d", "/", "c">>}
CodecContents == {<<>>, <<"x">>, <<"x", "\n", "y">>}
CodecEntries == [name : CodecPaths, content : CodecContents]

\* FileMaps of at most MaxFiles entries with unique keys, in any insertion order.
FileMaps ==
    UNION {{m \in [1..n -> CodecEntries] :
               \A i, j \in 1..n : i # j => m[i].name # m[j].name} : n \in 0..MaxFiles}

\* Pieces of text a process may write to stdout by itself.
RawChunks ==
    {<<"/", "/">>, <<" ">>, AtFilename,
     <<"@", "F", "I", "L", "E", "N", "A", "M", "E", ":">>,
     <<"/", "a">>, <<"x">>, <<"\n">>, <<"\r">>}

RawTexts == UNION {{Concat(cs) : cs \in [1..n -> RawChunks]} : n \in 0..MaxChunks}

\* The parts of the state a specification does not use stay as they are here.
NoCall == [op |-> "none", generators |-> <<>>, noEmit |-> FALSE, noWarn |-> <<>>,
           writeToStdOut |-> FALSE]

ArgIdle ==
    /\ handleOptions = NoOptions
    /\ builderArgs = <<>>
    /\ sentArgs = <<>>
    /\ lastCall = NoCall
    /\ callCount = 0

NoTermination == [kind |-> "none", code |-> 0]
NoResponse == [shape |-> "none", exitCode |-> <<>>, stdOut |-> <<>>, stdErr |-> <<>>,
               text |-> <<>>]

InvIdle ==
    /\ invPc = "init"
    /\ invFiles = <<>>
    /\ invArgs = <<>>
    /\ vfs = <<>>
    /\ procStdout = <<>>
    /\ procStderr = <<>>
    /\ procSteps = 0
    /\ termination = NoTermination
    /\ response = NoResponse
    /\ invOutcome = NoOutcome

NumCalls == 4
Calls == 1..NumCalls

CacheIdle ==
    /\ memoValue = <<>>
    /\ promises = <<>>
    /\ callPc = [c \in Calls |-> "idle"]
    /\ callModule = [c \in Calls |-> <<>>]

DiagIdle ==
    /\ diagPc = "init"
    /\ diagStdErr = <<>>
    /\ diagExitCode = 0
    /\ diagOp = "none"
    /\ diagOutcome = NoOutcome

AsmIdle ==
    /\ asmPc = "init"
    /\ asmFiles = <<>>
    /\ asmConfigs = <<>>
    /\ asmOutput = [error |-> "", warnings |-> <<>>, errors |-> <<>>, results |-> <<>>]

CodecIdle ==
    /\ codecPc = "init"
    /\ codecMap = <<>>
    /\ codecStdOut = <<>>
    /\ emittedFiles = [error |-> "", files |-> <<>>]

notCodec == <<diagVars, asmVars, argVars, invVars, cacheVars>>
notDiag == <<codecVars, asmVars, argVars, invVars, cacheVars>>
notAsm == <<codecVars, diagVars, argVars, invVars, cacheVars>>
notArg == <<codecVars, diagVars, asmVars, invVars, cacheVars>>
notInv == <<codecVars, diagVars, asmVars, argVars, cacheVars>>
notCache == <<codecVars, diagVars, asmVars, argVars, invVars>>

CodecInit == CodecIdle /\ DiagIdle /\ AsmIdle /\ ArgIdle /\ InvIdle /\ CacheIdle

\* worker.ts 82-93: the files of the run are encoded into stdOut.
WorkerEncode ==
    /\ codecPc = "init"
    /\ \E m \in FileMaps :
          /\ codecMap' = m
          /\ codecStdOut' = EncodeFiles(m)
    /\ codecPc' = "received"
    /\ UNCHANGED <<emittedFiles, notCodec>>

\* worker.ts 94: stdOut is what the process wrote.
WorkerRawStdout ==
    /\ codecPc = "init"
    /\ \E t \in RawTexts : codecStdOut' = t
    /\ codecPc' = "received"
    /\ UNCHANGED <<codecMap, emittedFiles, notCodec>>

\* index.ts 399 / 484: createFileMap(response.stdOut)
CallCreateFileMap ==
    /\ codecPc = "received"
    /\ emittedFiles' = createFileMap(codecStdOut)
    /\ codecPc' = "decoded"
    /\ UNCHANGED <<codecMap, codecStdOut, notCodec>>

CodecNext == WorkerEncode \/ WorkerRawStdout \/ CallCreateFileMap

vars == <<codecVars, diagVars, asmVars, argVars, invVars, cacheVars>>

SpecCodec == CodecInit /\ [][CodecNext]_vars

\* C1: decoding the encoding of a FileMap with at least one entry yields
\* exactly the keys of the FileMap and, for every key, exactly its content.
C1_RoundTrip ==
    (codecPc = "decoded" /\ Len(codecMap) >= 1) =>
        /\ emittedFiles.error = ""
        /\ MapKeys(emittedFiles.files) = MapKeys(codecMap)
        /\ \A k \in MapKeys(codecMap) :
              MapGet(emittedFiles.files, k) = MapGet(codecMap, k)

\* Some line, as split by the decoder, matches the marker pattern.
SomeLineMatches(input) ==
    LET lines == SplitLines(input)
    IN  \E i \in 1..Len(lines) : RegexpExec(lines[i]).ok

\* C7: createFileMap either fails with "no input files found" or returns a
\* map with at least one entry, and it fails exactly when no line matches.
C7_DecodeRequiresMarker ==
    codecPc = "decoded" =>
        /\ \/ emittedFiles.error = "no input files found"
           \/ (emittedFiles.error = "" /\ Len(emittedFiles.files) >= 1)
        /\ (emittedFiles.error = "no input files found") <=> ~SomeLineMatches(codecStdOut)

-----------------------------------------------------------------------------
(* Diagnostics specification: a run ends with an exit code and a stderr     *)
(* text, and build() or another operation classifies it.                    *)

MaxPieces == 3

ExcBad ==
    <<"{", "severity", ":", "error", ",", "message", ":", "bad", ",",
      "errorCode", ":", "12", "}">>
ExcWorse ==
    <<"{", "severity", ":", "error", ",", "message", ":", "worse", ",",
      "errorCode", ":", "13", ",", "span", ":", "1", "}">>
ExcWithSpan ==
    <<"{", "severity", ":", "error", ",", "message", ":", "bad", ",",
      "errorCode", ":", "12", ",", "span", ":", "{", "line", ":", "1", "}", "}">>
OutputEmpty == <<"{", "warnings", ":", "[", "]", ",", "errors", ":", "[", "]", "}">>
OutputWithError ==
    <<"{", "warnings", ":", "[", "]", ",", "errors", ":", "[">> \o ExcBad \o <<"]", "}">>
Hint == <<"{", "hint", ":", "1", "}">>
Prose == <<"warning: foo">>
Broken == <<"{", "warning: foo", "}">>

\* What the process may print on stderr, piece by piece.
StdErrPieces ==
    {ExcBad, ExcWorse, ExcWithSpan, OutputEmpty, OutputWithError, Hint, Prose, Broken}
StdErrTexts == UNION {{Concat(ps) : ps \in [1..n -> StdErrPieces]} : n \in 0..MaxPieces}

ExitCodes == {0, 1, 399, 400, 401}

DiagInit == DiagIdle /\ CodecIdle /\ AsmIdle /\ ArgIdle /\ InvIdle /\ CacheIdle

\* worker.ts 64-78: the run ends, the response carries stderr and the exit code.
ProcessExits ==
    /\ diagPc = "init"
    /\ \E t \in StdErrTexts, c \in ExitCodes :
          /\ diagStdErr' = t
          /\ diagExitCode' = c
    /\ diagPc' = "exited"
    /\ UNCHANGED <<diagOp, diagOutcome, notDiag>>

\* index.ts 460-462: build() on a nonzero exit code.
BuildFailed ==
    /\ diagPc = "exited"
    /\ diagExitCode # 0
    /\ diagOutcome' = parseStandardError(diagStdErr, diagExitCode)
    /\ diagOp' = "build"
    /\ diagPc' = "done"
    /\ UNCHANGED <<diagStdErr, diagExitCode, notDiag>>

\* index.ts 463-469: build({noEmit: true}) on exit code 0.
BuildNoEmit ==
    /\ diagPc = "exited"
    /\ diagExitCode = 0
    /\ diagOutcome' =
          IF diagStdErr = <<>>
          THEN Returned(<<[key |-> "warnings", value |-> <<"[", "]">>],
                          [key |-> "errors", value |-> <<"[", "]">>]>>)
          ELSE parseStandardError(diagStdErr, diagExitCode)
    /\ diagOp' = "buildNoEmit"
    /\ diagPc' = "done"
    /\ UNCHANGED <<diagStdErr, diagExitCode, notDiag>>

\* index.ts 371-373 (and 382, 393, 410, 421): the other operations on a
\* nonzero exit code.
OperationFailed ==
    /\ diagPc = "exited"
    /\ diagExitCode # 0
    /\ diagOutcome' = throwCompilerError(diagStdErr, diagExitCode)
    /\ diagOp' = "other"
    /\ diagPc' = "done"
    /\ UNCHANGED <<diagStdErr, diagExitCode, notDiag>>

DiagNext == ProcessExits \/ BuildFailed \/ BuildNoEmit \/ OperationFailed

SpecDiag == DiagInit /\ [][DiagNext]_vars

\* C3: with an exit code >= 400, if some fragment of stderr parses to an
\* object of the shape {severity, message, errorCode}, the error raised carries
\* the fields of the last such object; otherwise a generic error carries the
\* raw stderr and the exit code.
C3_FatalRaisesLastMatching ==
    (diagPc = "done" /\ diagExitCode >= FatalExitCode) =>
        LET matching == SelectSeq(findErrorEntries(diagStdErr), isCompilerException)
        IN  IF matching # <<>>
            THEN diagOutcome = TypedError(matching[Len(matching)])
            ELSE diagOutcome = ProcessError(diagStdErr, diagExitCode)

\* The JSON objects a text holds: at each "{", the object that starts there if
\* JSON.parse accepts one, the scan going on after it.
RECURSIVE EmbeddedObjects(_, _)
EmbeddedObjects(t, pos) ==
    LET opens == {i \in pos..Len(t) : t[i] = "{"}
    IN  IF opens = {} THEN <<>>
        ELSE LET i == CHOOSE x \in opens : \A y \in opens : x <= y
                 v == ParseValue(t, i)
             IN  IF v.ok THEN <<v.fields>> \o EmbeddedObjects(t, v.next)
                 ELSE EmbeddedObjects(t, i + 1)

\* C8: a build that ends with a nonzero exit code below 400 and whose stderr
\* holds a JSON object returns the first object when it has the fields
\* warnings and errors (empty or not); otherwise it raises the last object
\* when that has the shape {severity, message, errorCode}, and otherwise a
\* generic error with the raw stderr and the exit code.
C8_NonFatalReturnsFirstOutput ==
    (diagPc = "done" /\ diagOp = "build" /\ diagExitCode < FatalExitCode) =>
        LET objs == EmbeddedObjects(diagStdErr, 1)
        IN  objs # <<>> =>
              diagOutcome =
                IF HasField(objs[1], "warnings") /\ HasField(objs[1], "errors")
                THEN Returned(objs[1])
                ELSE IF isCompilerException(objs[Len(objs)])
                     THEN TypedError(objs[Len(objs)])
                     ELSE ProcessError(diagStdErr, diagExitCode)

-----------------------------------------------------------------------------
(* Assembler specification: build() decoded the produced files and matches  *)
(* the requested generators against them.                                   *)

MaxProduced == 3
MaxGenerators == 2

ACpp  == <<"/", "o", "/", "a", ".", "c", "p", "p">>
AHpp  == <<"/", "o", "/", "a", ".", "h", "p", "p">>
BCpp  == <<"/", "o", "/", "b", ".", "c", "p", "p">>
BHpp  == <<"/", "o", "/", "b", ".", "h", "p", "p">>
ATs   == <<"/", "o", "/", "a", ".", "t", "s">>
RACpp == <<"/", "r">> \o ACpp
RAHpp == <<"/", "r">> \o AHpp
RATs  == <<"/", "r">> \o ATs

ProducedPaths == {ACpp, AHpp, BCpp, BHpp, ATs, RACpp, RAHpp, RATs}

\* The content of a produced file tells the files apart.
ContentOf(p) == <<"#">> \o p

\* Decoded FileMaps of at most MaxProduced files, in every stream order.
ProducedMaps ==
    UNION {{[i \in 1..n |-> [name |-> ps[i], content |-> ContentOf(ps[i])]] :
               ps \in {q \in [1..n -> ProducedPaths] :
                          \A i, j \in 1..n : i # j => q[i] # q[j]}} :
           n \in 0..MaxProduced}

GeneratorRequests ==
    {[alias |-> "cpp", outFile |-> ACpp],
     [alias |-> "cpp", outFile |-> BCpp],
     [alias |-> "ts",  outFile |-> ATs],
     [alias |-> "ts",  outFile |-> <<"o", "/", ".", "/", "a", ".", "t", "s">>],
     [alias |-> "go",  outFile |-> ATs],
     [alias |-> "ts",  outFile |-> <<"/", "o", "/", "a">>]}

GeneratorLists == UNION {[1..n -> GeneratorRequests] : n \in 0..MaxGenerators}

AsmInit == AsmIdle /\ CodecIdle /\ DiagIdle /\ ArgIdle /\ InvIdle /\ CacheIdle

\* index.ts 484-489: createCompilerOutput(emittedFiles, generators, "")
\* (stderr is empty on a run without diagnostics).
Assemble ==
    /\ asmPc = "init"
    /\ \E files \in ProducedMaps, configs \in GeneratorLists :
          /\ asmFiles' = files
          /\ asmConfigs' = configs
          /\ asmOutput' = createCompilerOutput(files, configs, <<>>)
    /\ asmPc' = "done"
    /\ UNCHANGED notAsm

\* index.ts 484-489 with the diagnostics of the run on stderr.
AssembleWithDiagnostics ==
    /\ asmPc = "init"
    /\ \E files \in {m \in ProducedMaps : Len(m) <= 1},
          configs \in {g \in GeneratorLists : Len(g) <= 1},
          stdError \in {OutputEmpty, OutputWithError, Prose} :
          /\ asmFiles' = files
          /\ asmConfigs' = configs
          /\ asmOutput' = createCompilerOutput(files, configs, stdError)
    /\ asmPc' = "done"
    /\ UNCHANGED notAsm

AsmNext == Assemble \/ AssembleWithDiagnostics

SpecAsm == AsmInit /\ [][AsmNext]_vars

\* The insertion orders of a map: the same entries in another order.
Reorderings(m) ==
    {[i \in 1..Len(m) |-> m[f[i]]] :
        f \in {g \in [1..Len(m) -> 1..Len(m)] :
                  \A i, j \in 1..Len(m) : i # j => g[i] # g[j]}}

\* C2: when createCompilerOutput succeeds, results holds one GeneratedFile per
\* request, the i-th with the alias of the i-th request and a produced file
\* for its outFile, and the results are the same for every order in which the
\* produced files appear in the stream.
C2_ResultsInRequestOrder ==
    (asmPc = "done" /\ asmOutput.error = "" /\ Len(asmConfigs) > 0) =>
        /\ Len(asmOutput.results) = Len(asmConfigs)
        /\ \A i \in 1..Len(asmConfigs) :
              /\ asmOutput.results[i].generator = asmConfigs[i].alias
              /\ MapHas(asmFiles, asmOutput.results[i].name)
              /\ EndsWith(asmOutput.results[i].name, PathResolve(asmConfigs[i].outFile))
        /\ \A m \in Reorderings(asmFiles) :
              GenerateAll(m, asmConfigs, <<>>).results = asmOutput.results

\* The produced files with the extension ext in the directory dir.
FilesWithExtIn(files, ext, dir) ==
    {f \in MapKeys(files) : EndsWith(f, <<".">> \o ext) /\ PathDirname(f) = dir}

\* C4: for every generator whose alias declares an auxiliary extension and
\* whose primary output was found, the auxiliary file attached is a produced
\* file with that extension in the directory of the primary output returned,
\* and the auxiliary-file-not-found error is raised exactly when the produced
\* files hold no file with that extension in that directory.
C4_AuxiliaryBesidePrimary ==
    asmPc = "done" =>
        LET done == GenerateAll(asmFiles, asmConfigs, <<>>)
            n    == Len(done.results)
        IN  /\ \A i \in 1..n :
                  extLookupTable(asmConfigs[i].alias)[1].auxiliaryExt # NoExt =>
                      /\ done.results[i].auxiliaryFile # NoAuxiliary
                      /\ done.results[i].auxiliaryFile[1].name \in
                            FilesWithExtIn(asmFiles,
                                extLookupTable(asmConfigs[i].alias)[1].auxiliaryExt,
                                PathDirname(done.results[i].name))
            /\ (n < Len(asmConfigs) /\ asmConfigs[n + 1].alias = "cpp"
                  /\ HasExtension(PathResolve(asmConfigs[n + 1].outFile))) =>
                  LET primary == FindOutFile(asmFiles, PathResolve(asmConfigs[n + 1].outFile))
                  IN  primary # <<>> =>
                        ((done.error = "unable to find auxiliary file") <=>
                            FilesWithExtIn(asmFiles, <<"h", "p", "p">>,
                                           PathDirname(primary[1])) = {})

-----------------------------------------------------------------------------
(* Argument specification: operations called one after another on one       *)
(* BebopCompiler handle.                                                    *)

MaxCalls == 3

RootOptionChoices ==
    {NoOptions,
     [NoOptions EXCEPT !.given = TRUE],
     [NoOptions EXCEPT !.given = TRUE, !.trace = TRUE],
     [NoOptions EXCEPT !.given = TRUE, !.include = <<<<"a.bop">>, <<"b.bop">>>>,
                       !.diagnosticFormat = "msbuild"],
     [NoOptions EXCEPT !.given = TRUE, !.locale = "en"]}

TsGenerator ==
    [alias |-> "ts", outFile |-> "out.ts", services |-> "", emitNotice |-> FALSE,
     emitBinarySchema |-> FALSE, namespace |-> "", options |-> ""]
CppGenerator ==
    [alias |-> "cpp", outFile |-> "out.cpp", services |-> "both", emitNotice |-> TRUE,
     emitBinarySchema |-> TRUE, namespace |-> "ns", options |-> "k=v"]

BuildChoices ==
    {[generators |-> <<>>, noEmit |-> TRUE, noWarn |-> <<>>, writeToStdOut |-> FALSE],
     [generators |-> <<TsGenerator>>, noEmit |-> FALSE, noWarn |-> <<>>,
      writeToStdOut |-> FALSE],
     [generators |-> <<TsGenerator, CppGenerator>>, noEmit |-> FALSE,
      noWarn |-> <<<<"200">>, <<"201">>>>, writeToStdOut |-> TRUE]}

FlagOperations == {"getHelp", "getVersion", "init", "showConfig", "listSchemas"}

\* index.ts 348-366: BebopCompiler(files, options)
ArgInit ==
    /\ handleOptions \in RootOptionChoices
    /\ builderArgs = NewHandleArgs(handleOptions)
    /\ sentArgs = <<>>
    /\ lastCall = NoCall
    /\ callCount = 0
    /\ CodecIdle /\ DiagIdle /\ AsmIdle /\ InvIdle /\ CacheIdle

\* index.ts 368-370 (getHelp) and the like of getVersion, init, showConfig,
\* listSchemas: builder.addFlag(flag); runBebopc(fileMap, builder.build())
CallFlagOperation ==
    /\ callCount < MaxCalls
    /\ \E op \in FlagOperations :
          /\ builderArgs' = addFlag(builderArgs, OperationFlag(op), <<>>)
          /\ lastCall' = [NoCall EXCEPT !.op = op]
    /\ sentArgs' = builderArgs'
    /\ callCount' = callCount + 1
    /\ UNCHANGED <<handleOptions, notArg>>

\* index.ts 435-459: build(generators, options)
CallBuild ==
    /\ callCount < MaxCalls
    /\ \E b \in BuildChoices :
          /\ builderArgs' = BuildArgs(builderArgs, b.generators, b)
          /\ lastCall' = [op |-> "build", generators |-> b.generators,
                          noEmit |-> b.noEmit, noWarn |-> b.noWarn,
                          writeToStdOut |-> b.writeToStdOut]
    /\ sentArgs' = builderArgs'
    /\ callCount' = callCount + 1
    /\ UNCHANGED <<handleOptions, notArg>>

ArgNext == CallFlagOperation \/ CallBuild

SpecArgs == ArgInit /\ [][ArgNext]_vars

\* The ArgVector of a call: "bebopc", the root flags, then the flag or the
\* subcommand and subcommand flags of that call alone.
ExpectedArgs(options, call) ==
    LET root == <<<<"bebopc">>>>
                \o (IF options.given
                    THEN (IF options.trace THEN <<<<"--trace">>>> ELSE <<>>)
                         \o (IF options.include # <<>>
                             THEN <<<<"--include">>>> \o options.include ELSE <<>>)
                         \o (IF options.exclude # <<>>
                             THEN <<<<"--exclude">>>> \o options.exclude ELSE <<>>)
                         \o (IF options.locale # ""
                             THEN <<<<"--locale">>, <<options.locale>>>> ELSE <<>>)
                         \o <<<<"--diagnostic-format">>,
                              <<IF options.diagnosticFormat # ""
                                THEN options.diagnosticFormat ELSE "json">>>>
                    ELSE <<>>)
        gens == [i \in 1..Len(call.generators) |->
                    <<<<"--generator">>, generatorConfigToString(call.generators[i])>>]
    IN  IF call.op = "build"
        THEN root \o <<<<"build">>>> \o Concat(gens)
             \o (IF call.noEmit THEN <<<<"--no-emit">>>> ELSE <<>>)
             \o (IF call.noWarn # <<>> THEN <<<<"--no-warn">>>> \o call.noWarn ELSE <<>>)
             \o (IF call.writeToStdOut THEN <<<<"--stdout">>>> ELSE <<>>)
        ELSE Append(root, <<OperationFlag(call.op)>>)

OperationTokens ==
    {<<"build">>} \cup {<<OperationFlag(op)>> : op \in FlagOperations}

\* C9: the ArgVector passed to each invocation is "bebopc", the root flags and
\* the tokens of that one operation: at most one operation token, none from an
\* earlier operation on the handle.
C9_NoArgvStateSurvives ==
    callCount >= 1 =>
        /\ sentArgs = ExpectedArgs(handleOptions, lastCall)
        /\ Cardinality({i \in 1..Len(sentArgs) : sentArgs[i] \in OperationTokens}) <= 1

-----------------------------------------------------------------------------
(* Invocation specification: one run of the binary in the worker, from the  *)
(* seeded filesystem to the response and the operation's outcome.           *)

MaxProcSteps == 3

SeedS == <<"/", "s">>
SeedT == <<"/", "d", "/", "t">>
NewA  == <<"/", "o", "/", "a">>
NewB  == <<"/", "o", "/", "b">>
NewJ  == <<"/", "j">>
NewU  == <<"/", "d", "/", "u">>

SeededMaps ==
    {<<>>,
     <<[name |-> SeedS, content |-> <<"y">>]>>,
     <<[name |-> SeedS, content |-> <<"y">>], [name |-> SeedT, content |-> <<"y">>]>>}

ArgVectors ==
    {<<<<"bebopc">>, <<"--help">>>>,
     <<<<"bebopc">>, <<"--init">>>>,
     <<<<"bebopc">>, <<"build">>, <<"--generator">>, <<"ts", ":", "o/a">>>>,
     <<<<"bebopc">>, <<"build">>, <<"--generator">>, <<"ts", ":", "o/a">>, <<"--stdout">>>>}

WritablePaths == {SeedS, NewA, NewB, NewJ, NewU}
StdoutChunks == {<<"h">>, <<"\n">>}
StderrChunks == {<<"e">>}
Terminations ==
    {[kind |-> "return", code |-> 0], [kind |-> "exit", code |-> 0],
     [kind |-> "exit", code |-> 1], [kind |-> "exitNoCode", code |-> 0],
     [kind |-> "fault", code |-> 0]}

InvInit == InvIdle /\ CodecIdle /\ DiagIdle /\ AsmIdle /\ ArgIdle /\ CacheIdle

\* worker.ts 20-63: the filesystem is seeded and the instance made.
StartRun ==
    /\ invPc = "init"
    /\ \E files \in SeededMaps, args \in ArgVectors :
          /\ invFiles' = files
          /\ invArgs' = args
          /\ vfs' = files
    /\ invPc' = "running"
    /\ UNCHANGED <<procStdout, procStderr, procSteps, termination, response,
                   invOutcome, notInv>>

\* worker.ts 44-46: the process writes to stdout.
ProcessWritesStdout ==
    /\ invPc = "running" /\ procSteps < MaxProcSteps
    /\ \E data \in StdoutChunks : procStdout' = procStdout \o data
    /\ procSteps' = procSteps + 1
    /\ UNCHANGED <<invPc, invFiles, invArgs, vfs, procStderr, termination, response,
                   invOutcome, notInv>>

\* worker.ts 47-49: the process writes to stderr.
ProcessWritesStderr ==
    /\ invPc = "running" /\ procSteps < MaxProcSteps
    /\ \E data \in StderrChunks : procStderr' = procStderr \o data
    /\ procSteps' = procSteps + 1
    /\ UNCHANGED <<invPc, invFiles, invArgs, vfs, procStdout, termination, response,
                   invOutcome, notInv>>

\* The process writes a file of the virtual filesystem (bindings.fs, worker.ts 38).
ProcessWritesFile ==
    /\ invPc = "running" /\ procSteps < MaxProcSteps
    /\ \E p \in WritablePaths : vfs' = MapSet(vfs, p, <<"x">>)
    /\ procSteps' = procSteps + 1
    /\ UNCHANGED <<invPc, invFiles, invArgs, procStdout, procStderr, termination,
                   response, invOutcome, notInv>>

\* worker.ts 64-95: wasi.start(instance) ends and runBebopc returns.
RunEnds ==
    /\ invPc = "running"
    /\ \E term \in Terminations :
          /\ termination' = term
          /\ response' = RunResult(invFiles, invArgs, vfs, procStdout, procStderr, term)
    /\ invPc' = "responded"
    /\ UNCHANGED <<invFiles, invArgs, vfs, procStdout, procStderr, procSteps,
                   invOutcome, notInv>>

\* index.ts 371-373, 460-462: response.exitCode !== 0
OperationSeesFailure ==
    /\ invPc = "responded"
    /\ response.exitCode # <<0>>
    /\ invOutcome' = HandleFailure(invArgs, response)
    /\ invPc' = "handled"
    /\ UNCHANGED <<invFiles, invArgs, vfs, procStdout, procStderr, procSteps,
                   termination, response, notInv>>

\* index.ts 374-377: getHelp returns the text.
GetHelpReturns ==
    /\ invPc = "responded"
    /\ response.exitCode = <<0>>
    /\ ArgsInclude(invArgs, "--help")
    /\ invOutcome' = HelpResult(response)
    /\ invPc' = "handled"
    /\ UNCHANGED <<invFiles, invArgs, vfs, procStdout, procStderr, procSteps,
                   termination, response, notInv>>

InvNext ==
    \/ StartRun
    \/ ProcessWritesStdout
    \/ ProcessWritesStderr
    \/ ProcessWritesFile
    \/ RunEnds
    \/ OperationSeesFailure
    \/ GetHelpReturns

SpecInvoke == InvInit /\ [][InvNext]_vars

\* C6: every run that ends yields an InvocationResult: an exit signal with
\* code c gives exitCode c, a fault without exit code gives exitCode 127 with
\* the stderr captured so far, and the operation that sees the fault reports a
\* process error with that stderr and exit code 127.
C6_RunYieldsInvocationResult ==
    invPc \in {"responded", "handled"} =>
        /\ response.shape = "InvocationResult"
        /\ termination.kind = "return" => response.exitCode = <<0>>
        /\ termination.kind = "exit" => response.exitCode = <<termination.code>>
        /\ termination.kind \in {"exitNoCode", "fault"} =>
              /\ response.exitCode = <<ExitCodeDefault>>
              /\ response.stdErr = procStderr
              /\ invPc = "handled" =>
                    invOutcome = ProcessError(procStderr, ExitCodeDefault)

\* The enumerations of a set of entries, each entry once.
Enumerations(S) ==
    {e \in [1..Cardinality(S) -> S] :
        \A i, j \in 1..Cardinality(S) : i # j => e[i] # e[j]}

\* The files of the filesystem whose paths were not seeded.
NewFiles ==
    {[name |-> p, content |-> MapGet(vfs, p)] : p \in MapKeys(vfs) \ MapKeys(invFiles)}

\* C10: for a file-producing ArgVector and exit code 0, the files encoded
\* into stdOut are exactly the files of the filesystem that were not seeded;
\* for every other invocation stdOut is what the process wrote to stdout.
C10_OnlyNewFilesReported ==
    invPc \in {"responded", "handled"} =>
        IF IsFileProducing(invArgs)
           /\ (termination.kind = "return"
               \/ (termination.kind = "exit" /\ termination.code = 0))
        THEN /\ response.shape = "InvocationResult"
             /\ \E e \in Enumerations(NewFiles) : response.stdOut = EncodeFiles(e)
        ELSE /\ response.shape = "InvocationResult"
             /\ response.stdOut = procStdout

\* The same for the runs that return an InvocationResult only.
InvocationResultReportsNewFiles ==
    (invPc \in {"responded", "handled"} /\ response.shape = "InvocationResult") =>
        IF IsFileProducing(invArgs) /\ response.exitCode = <<0>>
        THEN \E e \in Enumerations(NewFiles) : response.stdOut = EncodeFiles(e)
        ELSE response.stdOut = procStdout

-----------------------------------------------------------------------------
(* Cache specification: runBebopc calls arrive at the worker in any order   *)
(* and interleave at their awaits.                                          *)

CacheInit == CacheIdle /\ CodecIdle /\ DiagIdle /\ AsmIdle /\ ArgIdle /\ InvIdle

\* worker.ts 16-55: a call runs up to "await getModule()".  A promise that
\* getModule returns and that was not made before is a compile just started.
CallArrives(c) ==
    /\ callPc[c] = "idle"
    /\ LET got == getModule(memoValue, promises)
       IN  /\ memoValue' = got
           /\ promises' = IF got[1] > Len(promises) THEN Append(promises, "pending")
                          ELSE promises
           /\ callModule' = [callModule EXCEPT ![c] = got]
    /\ callPc' = [callPc EXCEPT ![c] = "awaitModule"]
    /\ UNCHANGED notCache

\* worker.ts 12: the fetch and compile of a started compileStreaming end.
CompileSettles(p) ==
    /\ promises[p] = "pending"
    /\ \E st \in {"fulfilled", "rejected"} : promises' = [promises EXCEPT ![p] = st]
    /\ UNCHANGED <<memoValue, callPc, callModule, notCache>>

\* worker.ts 55-63: the awaited module arrives, the call goes on to
\* "await WebAssembly.instantiate(module, imports)".
ModuleArrives(c) ==
    /\ callPc[c] = "awaitModule"
    /\ promises[callModule[c][1]] = "fulfilled"
    /\ callPc' = [callPc EXCEPT ![c] = "awaitInstance"]
    /\ UNCHANGED <<memoValue, promises, callModule, notCache>>

\* worker.ts 55: the awaited promise is rejected, the call throws.
ModuleFails(c) ==
    /\ callPc[c] = "awaitModule"
    /\ promises[callModule[c][1]] = "rejected"
    /\ callPc' = [callPc EXCEPT ![c] = "thrown"]
    /\ UNCHANGED <<memoValue, promises, callModule, notCache>>

\* worker.ts 63-95: the instance arrives, the run and the return follow.
InstanceRuns(c) ==
    /\ callPc[c] = "awaitInstance"
    /\ callPc' = [callPc EXCEPT ![c] = "returned"]
    /\ UNCHANGED <<memoValue, promises, callModule, notCache>>

CacheNext ==
    \/ \E c \in Calls : CallArrives(c)
    \/ \E p \in 1..Len(promises) : CompileSettles(p)
    \/ \E c \in Calls : ModuleArrives(c)
    \/ \E c \in Calls : ModuleFails(c)
    \/ \E c \in Calls : InstanceRuns(c)

SpecCache == CacheInit /\ [][CacheNext]_vars

\* C5: in every interleaving of runBebopc calls the compile of the binary
\* image is started at most once, and every call awaits and uses that one
\* image.
C5_CompileOnce ==
    /\ Len(promises) <= 1
    /\ \A c \in Calls : callPc[c] # "idle" => callModule[c] = <<1>>
    /\ \A c, d \in Calls :
          (callPc[c] # "idle" /\ callPc[d] # "idle") => callModule[c] = callModule[d]

\* Two calls wait for the compile that is still in flight.
C5_Witness ==
    /\ promises = <<"pending">>
    /\ \E c, d \in Calls : c # d /\ callPc[c] = "awaitModule" /\ callPc[d] = "awaitModule"

====
